---------------------------- MODULE Spec2Model ----------------------------
(***************************************************************************)
(* Model of server.py (TradingView webhook -> Telegram forwarder).         *)
(*                                                                         *)
(* Python values are tagged records.  Strings are sequences of one-        *)
(* character strings, so that split / replace / endswith / upper / lower / *)
(* float() are computed character by character.  Finite floats are         *)
(* decimals m / 10^d.                                                      *)
(***************************************************************************)
EXTENDS Integers, Sequences, FiniteSets, TLC

VARIABLES
    ALERT_SECRET,    \* module global, line 14
    TELEGRAM_TOKEN,  \* module global, line 12
    CHAT_ID,         \* module global, line 13
    ID_CACHE,        \* _ID_CACHE, line 19: base symbol -> coin id
    VOL_CACHE,       \* _VOL_CACHE, line 20: ("cg", base.lower()) -> (value, time)
    now,             \* time.time(), in seconds
    req,             \* the last request handled (body of POST /tv)
    resp,            \* the response returned for it
    calls,           \* the outbound HTTP requests issued while handling it
    hist,            \* what was observed at entry of the last request
    arg,             \* input of the pure function under study
    ret              \* results of applying it

vars == <<ALERT_SECRET, TELEGRAM_TOKEN, CHAT_ID, ID_CACHE, VOL_CACHE, now,
          req, resp, calls, hist, arg, ret>>

-----------------------------------------------------------------------------
(* Python values *)

PyNone == [t |-> "none"]
Absent == [t |-> "absent"]
Str(s) == [t |-> "str", s |-> s]
Num(m, d) == [t |-> "num", m |-> m, d |-> d]
NaN == [t |-> "nan"]
Inf(neg) == [t |-> "inf", neg |-> neg]
Bool(b) == [t |-> "bool", b |-> b]
JList == [t |-> "list"]          \* the JSON value [1]
Err == [t |-> "err"]             \* a raised exception

IsStr(v) == v.t = "str"

\* Python truthiness of a value
Truthy(v) ==
    CASE v.t = "none" -> FALSE
      [] v.t = "absent" -> FALSE
      [] v.t = "str" -> v.s # << >>
      [] v.t = "num" -> v.m # 0
      [] v.t = "bool" -> v.b
      [] OTHER -> TRUE

-----------------------------------------------------------------------------
(* Strings *)

Lowers == <<"a","b","c","d","e","f","g","h","i","j","k","l","m",
            "n","o","p","q","r","s","t","u","v","w","x","y","z">>
Uppers == <<"A","B","C","D","E","F","G","H","I","J","K","L","M",
            "N","O","P","Q","R","S","T","U","V","W","X","Y","Z">>

UpperCh(c) ==
    IF \E i \in 1..26 : Lowers[i] = c
    THEN Uppers[CHOOSE i \in 1..26 : Lowers[i] = c] ELSE c
LowerCh(c) ==
    IF \E i \in 1..26 : Uppers[i] = c
    THEN Lowers[CHOOSE i \in 1..26 : Uppers[i] = c] ELSE c

Upper(s) == IF s = << >> THEN << >> ELSE [i \in 1..Len(s) |-> UpperCh(s[i])]
Lower(s) == IF s = << >> THEN << >> ELSE [i \in 1..Len(s) |-> LowerCh(s[i])]

StartsWith(s, p) == Len(s) >= Len(p) /\ SubSeq(s, 1, Len(p)) = p
EndsWith(s, p) == Len(s) >= Len(p) /\ SubSeq(s, Len(s) - Len(p) + 1, Len(s)) = p

\* str.replace(pat, ""): occurrences found left to right, not overlapping
RECURSIVE Remove(_, _)
Remove(s, pat) ==
    IF Len(s) < Len(pat) THEN s
    ELSE IF StartsWith(s, pat) THEN Remove(SubSeq(s, Len(pat) + 1, Len(s)), pat)
    ELSE <<Head(s)>> \o Remove(Tail(s), pat)

Colons(s) == {i \in 1..Len(s) : s[i] = ":"}
Max(S) == CHOOSE x \in S : \A y \in S : y <= x
Min(S) == CHOOSE x \in S : \A y \in S : x <= y
\* s.split(":")[0] and s.split(":")[-1]
FirstPart(s) == IF Colons(s) = {} THEN s ELSE SubSeq(s, 1, Min(Colons(s)) - 1)
LastPart(s) == IF Colons(s) = {} THEN s ELSE SubSeq(s, Max(Colons(s)) + 1, Len(s))

-----------------------------------------------------------------------------
(* parse_tv_symbol, lines 72-87 *)

QUOTES == << <<"U","S","D","T">>, <<"U","S","D">>, <<"U","S","D","C">>,
             <<"F","D","U","S","D">>, <<"B","U","S","D">>, <<"T","U","S","D">>,
             <<"E","U","R">>, <<"T","R","Y">>, <<"B","T","C">>, <<"E","T","H">> >>

\* lines 78-79
NormalizePair(pair_raw) ==
    LET a == Remove(Remove(pair_raw, <<"-">>), <<"/">>)
        b == Remove(a, <<".","P">>)
        c == Remove(b, <<"_","P","E","R","P">>)
    IN  Remove(c, <<"-","P","E","R","P">>)

\* lines 82-86: indexes of the quotes that match, the loop takes the first
QuoteMatches(pair_norm) ==
    {i \in 1..Len(QUOTES) :
        EndsWith(pair_norm, QUOTES[i]) /\ Len(pair_norm) > Len(QUOTES[i])}

\* tv_symbol is a str here (sequence of characters)
parse_tv_symbol(tv_symbol) ==
    IF tv_symbol = << >>
    THEN [venue |-> PyNone, base |-> PyNone, quote |-> PyNone, pair_norm |-> << >>]
    ELSE LET venue == IF Colons(tv_symbol) # {}
                      THEN Str(Upper(FirstPart(tv_symbol))) ELSE PyNone
             pair_norm == NormalizePair(LastPart(tv_symbol))
             ms == QuoteMatches(pair_norm)
         IN  IF ms = {}
             THEN [venue |-> venue, base |-> PyNone, quote |-> PyNone,
                   pair_norm |-> pair_norm]
             ELSE LET q == QUOTES[Min(ms)]
                  IN  [venue |-> venue,
                       base |-> Str(SubSeq(pair_norm, 1, Len(pair_norm) - Len(q))),
                       quote |-> Str(q),
                       pair_norm |-> pair_norm]

-----------------------------------------------------------------------------
(* Inputs of the symbol parser *)

MaxSymLen == 4
SymChars == {".", "P", "_", "E", "R", "-", "/", ":", "U", "S", "D", "b"}

RECURSIVE StringsUpTo(_, _)
StringsUpTo(A, n) ==
    IF n = 0 THEN {<< >>}
    ELSE LET S == StringsUpTo(A, n - 1)
         IN  S \cup {<<c>> \o s : c \in A, s \in {x \in S : Len(x) = n - 1}}

SeedSymbols ==
    { <<"B","I","N","A","N","C","E",":","B","T","C","U","S","D","T">>,
      <<"S","O","L","U","S","D",".","P">>,
      <<"B","T","C","-","U","S","D","T">>,
      <<"E","T","H","/","U","S","D">>,
      <<"B","T","C","U","S","D","T","_","P","E","R","P">>,
      <<"B","T","C","U","S","D","T","-","P","E","R","P">>,
      <<"b","y","b","i","t",":","E","T","H","U","S","D","C">>,
      <<"U","S","D","T">> }

ParseInputs == SeedSymbols \cup StringsUpTo(SymChars, MaxSymLen)

-----------------------------------------------------------------------------
(* float(), int(), str() *)

WS == {" ", "\t", "\n"}
DigitChars == <<"0","1","2","3","4","5","6","7","8","9">>
IsDigit(c) == \E i \in 1..10 : DigitChars[i] = c
DigitVal(c) == (CHOOSE i \in 1..10 : DigitChars[i] = c) - 1

RECURSIVE Strip(_)
Strip(s) ==
    IF s = << >> THEN s
    ELSE IF Head(s) \in WS THEN Strip(Tail(s))
    ELSE IF s[Len(s)] \in WS THEN Strip(SubSeq(s, 1, Len(s) - 1))
    ELSE s

RECURSIVE DigitsVal(_)
DigitsVal(s) ==
    IF s = << >> THEN 0
    ELSE DigitsVal(SubSeq(s, 1, Len(s) - 1)) * 10 + DigitVal(s[Len(s)])

RECURSIVE Pow10(_)
Pow10(k) == IF k <= 0 THEN 1 ELSE 10 * Pow10(k - 1)

\* the decimal m / 10^d without trailing zero decimals
RECURSIVE Decimal(_, _)
Decimal(m, d) ==
    IF d > 0 /\ m % 10 = 0 THEN Decimal(m \div 10, d - 1) ELSE Num(m, d)

\* float(s) of a str without exponent or underscores: [sign] digits [. digits],
\* or nan / inf / infinity in any case; surrounding whitespace is ignored
PyFloatStr(s) ==
    LET t == Strip(s)
        neg == t # << >> /\ Head(t) = "-"
        body == IF t # << >> /\ Head(t) \in {"+", "-"} THEN Tail(t) ELSE t
        low == Lower(body)
        dots == {i \in 1..Len(body) : body[i] = "."}
        digs == SelectSeq(body, IsDigit)
        mag == DigitsVal(digs)
    IN  IF low = <<"n","a","n">> THEN NaN
        ELSE IF low \in {<<"i","n","f">>, <<"i","n","f","i","n","i","t","y">>}
             THEN Inf(neg)
        ELSE IF /\ digs # << >>
                /\ Cardinality(dots) <= 1
                /\ \A i \in 1..Len(body) : IsDigit(body[i]) \/ body[i] = "."
             THEN Decimal(IF neg THEN 0 - mag ELSE mag,
                          IF dots = {} THEN 0 ELSE Len(body) - Max(dots))
        ELSE Err

\* float(v): ValueError / TypeError is Err
PyFloat(v) ==
    CASE v.t \in {"num", "nan", "inf"} -> v
      [] v.t = "bool" -> Num(IF v.b THEN 1 ELSE 0, 0)
      [] v.t = "str" -> PyFloatStr(v.s)
      [] OTHER -> Err

\* int(x) of a float: truncation toward zero; nan and inf raise
PyInt(x) ==
    IF x.t # "num" THEN Err
    ELSE IF x.m >= 0 THEN Num(x.m \div Pow10(x.d), 0)
    ELSE Num(0 - ((0 - x.m) \div Pow10(x.d)), 0)

\* str(v) for the values that reach it
PyStr(v) ==
    CASE v.t = "str" -> v.s
      [] v.t = "none" -> <<"N","o","n","e">>
      [] v.t = "nan" -> <<"n","a","n">>
      [] v.t = "list" -> <<"[","1","]">>
      [] OTHER -> <<"?">>

-----------------------------------------------------------------------------
(* Rendered text: the pieces an f-string is made of *)

Dash == [k |-> "dash"]                       \* the placeholder glyph
Text(s) == [k |-> "text", s |-> s]           \* these characters
Lit(s) == [k |-> "lit", s |-> s]             \* a literal of the template
\* f"{x:.{dec}f}" of a float
Fixed(x, dec) ==
    CASE x.t = "nan" -> Text(<<"n","a","n">>)
      [] x.t = "inf" -> Text(IF x.neg THEN <<"-","i","n","f">> ELSE <<"i","n","f">>)
      [] OTHER -> [k |-> "fixed", m |-> x.m, d |-> x.d, dec |-> dec]
\* f"{sign}{n/unit:.2f}{suffix}" of _abbr
Abbr(x, suffix) == [k |-> "abbr", m |-> x.m, d |-> x.d, suffix |-> suffix]

-----------------------------------------------------------------------------
(* Utils, lines 36-70 *)

\* _get(p, k): called with one key everywhere
Get(p, k) == IF p[k] \in {Absent, PyNone} THEN PyNone ELSE p[k]

RemoveCommasWs(s) == SelectSeq(s, LAMBDA c : c # "," /\ c \notin WS)

\* _clean_num(v, decimals), allow_dash left at its default
clean_num(v, decimals) ==
    CASE v.t = "none" -> Dash
      [] v.t \in {"num", "nan", "inf", "bool"} -> Fixed(PyFloat(v), decimals)
      [] OTHER ->
            LET s0 == Lower(Strip(PyStr(v)))
                s == RemoveCommasWs(s0)
                f == PyFloatStr(s)
            IN  IF s0 \in {<<"n","a">>, <<"n","a","n">>, << >>} THEN Dash
                ELSE IF f = Err THEN Text(s)
                ELSE Fixed(f, decimals)

\* n >= 10^k for n = |m| / 10^d; |m| < 2^31 < 10^10
GeqPow10(m, d, k) == k + d <= 9 /\ m >= Pow10(k + d)

\* _abbr(v)
abbr(v) ==
    LET n == PyFloat(v)
        a == IF n.t = "num" /\ n.m < 0 THEN Num(0 - n.m, n.d) ELSE n
    IN  CASE n = Err -> Dash
          [] n.t = "nan" -> Text(<<"n","a","n">>)
          [] n.t = "inf" -> Text(IF n.neg THEN <<"-","i","n","f","T">>
                                 ELSE <<"i","n","f","T">>)
          [] OTHER ->
                IF GeqPow10(a.m, a.d, 12) THEN Abbr(n, "T")
                ELSE IF GeqPow10(a.m, a.d, 9) THEN Abbr(n, "B")
                ELSE IF GeqPow10(a.m, a.d, 6) THEN Abbr(n, "M")
                ELSE IF GeqPow10(a.m, a.d, 3) THEN Abbr(n, "K")
                ELSE Abbr(n, "")

\* x > y and x >= y on floats; every comparison with nan is False
Gt(x, y) ==
    CASE x.t = "nan" \/ y.t = "nan" -> FALSE
      [] x.t = "inf" -> ~x.neg /\ y # Inf(FALSE)
      [] y.t = "inf" -> y.neg
      [] OTHER -> x.m * Pow10(y.d) > y.m * Pow10(x.d)
Geq(x, y) ==
    CASE x.t = "nan" \/ y.t = "nan" -> FALSE
      [] x.t = "inf" \/ y.t = "inf" -> x = y \/ Gt(x, y)
      [] OTHER -> x.m * Pow10(y.d) >= y.m * Pow10(x.d)

\* str() of an int or of a float in the plain decimal range
RECURSIVE NatStr(_)
NatStr(n) ==
    IF n < 10 THEN <<DigitChars[n + 1]>>
    ELSE NatStr(n \div 10) \o <<DigitChars[(n % 10) + 1]>>
RECURSIVE PadLeft(_, _)
PadLeft(s, n) == IF Len(s) >= n THEN s ELSE PadLeft(<<"0">> \o s, n)
NumStr(x) ==
    LET a == IF x.m < 0 THEN 0 - x.m ELSE x.m
        sign == IF x.m < 0 THEN <<"-">> ELSE << >>
    IN  IF x.d = 0 THEN sign \o NatStr(a)
        ELSE sign \o NatStr(a \div Pow10(x.d)) \o <<".">>
                  \o PadLeft(NatStr(a % Pow10(x.d)), x.d)

\* str(v), as f"{v}" and str(v) compute it
Repr(v) ==
    CASE v.t = "num" -> NumStr(v)
      [] v.t = "bool" -> IF v.b THEN <<"T","r","u","e">> ELSE <<"F","a","l","s","e">>
      [] v.t = "inf" -> IF v.neg THEN <<"-","i","n","f">> ELSE <<"i","n","f">>
      [] OTHER -> PyStr(v)

-----------------------------------------------------------------------------
(* format_price, lines 235-271 *)

\* the number of digits of m > 0, less one: floor(log10(m))
RECURSIVE Log10Floor(_)
Log10Floor(m) == IF m < 10 THEN 0 ELSE 1 + Log10Floor(m \div 10)

\* int(round(math.log10(1.0 / mtf))) for mtf = m / 10^d, 0 < m < 10^4:
\* log10(m) rounds down exactly when m^2 < 10^(2k+1), k = floor(log10(m))
RoundLog10Inv(mtf) ==
    LET k == Log10Floor(mtf.m)
    IN  IF mtf.m * mtf.m < Pow10(2 * k + 1) THEN mtf.d - k ELSE mtf.d - k - 1

ClampDec(n) == IF n < 0 THEN 0 ELSE IF n > 18 THEN 18 ELSE n

\* line 269-271
PriceFallback(price) ==
    LET fp == PyFloat(price)
    IN  IF fp # Err THEN Fixed(fp, 12) ELSE Text(Repr(price))

\* lines 257-265, then the fallback
PriceByMintick(payload, price) ==
    LET mt == Get(payload, "mintick")
        mtf == PyFloat(mt)
        fp == PyFloat(price)
    IN  IF mt # PyNone /\ mtf # Err /\ mtf.t = "num" /\ mtf.m > 0 /\ fp # Err
        THEN Fixed(fp, ClampDec(RoundLog10Inv(mtf)))
        ELSE PriceFallback(price)

\* lines 249-254, then the next tiers
PriceByPrec(payload, price) ==
    LET pp == Get(payload, "price_prec")
        fp == PyFloat(price)
        prec == PyInt(PyFloat(pp))
    IN  IF pp # PyNone /\ fp # Err /\ prec # Err /\ prec.m >= 0
        THEN Fixed(fp, prec.m)
        ELSE PriceByMintick(payload, price)

format_price(payload) ==
    LET price_str == Get(payload, "price_str")
        price == Get(payload, "price")
    IN  IF IsStr(price_str) /\ Strip(price_str.s) # << >> THEN Text(price_str.s)
        ELSE IF price = PyNone THEN Dash
        ELSE PriceByPrec(payload, price)

-----------------------------------------------------------------------------
(* trend_read, lines 274-283 *)

trend_read(adx_val, di_p, di_m) ==
    LET adx_f == PyFloat(adx_val)
        dip == PyFloat(di_p)
        dim == PyFloat(di_m)
    IN  IF adx_f = Err \/ dip = Err \/ dim = Err THEN Dash
        ELSE IF Geq(adx_f, Num(25, 0))
             THEN (IF Gt(dip, dim) THEN Lit("Strong Bull") ELSE Lit("Strong Bear"))
        ELSE IF Geq(adx_f, Num(18, 0))
             THEN (IF Gt(dip, dim) THEN Lit("Mild Bull") ELSE Lit("Mild Bear"))
        ELSE Lit("Range/Weak")

-----------------------------------------------------------------------------
(* The world outside: what one outbound HTTP request can come to *)

CACHE_TTL == 300

\* an outcome is ok with a value, ok without the field (or with an empty
\* answer), or a failure (timeout, transport error, non-success status,
\* unparsable body)
Ok(v) == [o |-> "ok", v |-> v]
NoField == [o |-> "nofield"]
Fail == [o |-> "fail"]

\* a request made, with what came back
Call(api, outcome) ==
    [api |-> api, outcome |-> outcome.o,
     v |-> IF outcome.o = "ok" THEN outcome.v ELSE PyNone]
Tuple(a, b) == [t |-> "tuple", a |-> a, b |-> b]
Label(name) == [t |-> "label", name |-> name]

\* cache updates: d[k] = v
Put(d, k, v) == [x \in DOMAIN d \cup {k} |-> IF x = k THEN v ELSE d[x]]

-----------------------------------------------------------------------------
(* CoinGecko, lines 90-140 *)

\* cg_resolve_id(base_symbol) for a non-empty str: the id, the id cache
\* after the call and the requests issued
cg_resolve_id(base_symbol, idc, env) ==
    IF base_symbol \in DOMAIN idc
    THEN [id |-> idc[base_symbol], idc |-> idc, calls |-> << >>]
    ELSE IF env.search.o = "ok"
    THEN [id |-> env.search.v,
          idc |-> Put(idc, base_symbol, env.search.v),
          calls |-> <<Call("cg_search", env.search)>>]
    ELSE [id |-> PyNone, idc |-> idc, calls |-> <<Call("cg_search", env.search)>>]

\* the cache test without its age condition
CacheFreshNoTtl(volc, key, t) == key \in DOMAIN volc
\* line 119
CacheFresh(volc, key, t) == key \in DOMAIN volc /\ t - volc[key][2] < CACHE_TTL

\* lines 124-140, after the id is resolved
CgMarkets(key, r, volc, t, env) ==
    IF env.markets.o = "ok"
    THEN [val |-> env.markets.v, idc |-> r.idc,
          volc |-> Put(volc, key, <<env.markets.v, t>>),
          calls |-> r.calls \o <<Call("cg_markets", env.markets)>>]
    ELSE [val |-> PyNone, idc |-> r.idc, volc |-> volc,
          calls |-> r.calls \o <<Call("cg_markets", env.markets)>>]

\* lines 122-140: r is what cg_resolve_id returned
CgResolved(key, r, volc, t, env) ==
    IF r.id = PyNone
    THEN [val |-> PyNone, idc |-> r.idc, volc |-> volc, calls |-> r.calls]
    ELSE CgMarkets(key, r, volc, t, env)

\* lines 115-140: base is the parsed base asset
CgVolumeOfBase(base, idc, volc, t, env) ==
    IF ~Truthy(base)
    THEN [val |-> PyNone, idc |-> idc, volc |-> volc, calls |-> << >>]
    ELSE IF CacheFresh(volc, Lower(base.s), t)
    THEN [val |-> volc[Lower(base.s)][1], idc |-> idc, volc |-> volc, calls |-> << >>]
    ELSE CgResolved(Lower(base.s), cg_resolve_id(base.s, idc, env), volc, t, env)

\* get_coingecko_volume_24h_by_symbol(tv_symbol) for a str, at time t
get_coingecko_volume_24h_by_symbol(tv_symbol, idc, volc, t, env) ==
    CgVolumeOfBase(parse_tv_symbol(tv_symbol).base, idc, volc, t, env)

-----------------------------------------------------------------------------
(* Venue 24h volume, lines 143-232 *)

\* one request, the value or None: Binance, HTX, Coinbase (lines 143-182)
FetchOne(api, env) ==
    [v |-> IF env.venue.o = "ok" THEN env.venue.v ELSE PyNone,
     calls |-> <<Call(api, env.venue)>>]

\* lines 184-207: spot, then linear unless spot answered with a ticker
fetch_bybit_24h_quote_volume(env) ==
    IF env.venue.o = "ok"
    THEN [v |-> env.venue.v, calls |-> <<Call("bybit_spot", env.venue)>>]
    ELSE IF env.venue.o = "nofield"
    THEN [v |-> PyNone, calls |-> <<Call("bybit_spot", env.venue)>>]
    ELSE [v |-> IF env.venue2.o = "ok" THEN env.venue2.v ELSE PyNone,
          calls |-> <<Call("bybit_spot", env.venue), Call("bybit_linear", env.venue2)>>]

\* lines 209-211
fetch_bitunix_24h_quote_volume == [v |-> PyNone, calls |-> << >>]

\* return v, "exch:X" if v is not None else (None, None)
\* is the tuple (v, ("exch:X" if v is not None else (None, None)))
VenueReturn(f, name) ==
    [ret |-> Tuple(f.v, IF f.v # PyNone THEN Label(name) ELSE Tuple(PyNone, PyNone)),
     calls |-> f.calls]

VenueIs(venue, name) == venue = Str(name)

\* lines 215-232: p is the parsed symbol
VenueVolumeOfParsed(p, env) ==
    IF ~Truthy(p.venue) \/ ~Truthy(p.base) \/ ~Truthy(p.quote)
    THEN [ret |-> Tuple(PyNone, PyNone), calls |-> << >>]
    ELSE IF VenueIs(p.venue, <<"B","I","N","A","N","C","E">>)
    THEN VenueReturn(FetchOne("binance", env), "exch:BINANCE")
    ELSE IF VenueIs(p.venue, <<"H","T","X">>) \/ VenueIs(p.venue, <<"H","U","O","B","I">>)
    THEN VenueReturn(FetchOne("htx", env), "exch:HTX")
    ELSE IF VenueIs(p.venue, <<"C","O","I","N","B","A","S","E">>)
    THEN VenueReturn(FetchOne("coinbase", env), "exch:COINBASE")
    ELSE IF VenueIs(p.venue, <<"B","Y","B","I","T">>)
    THEN VenueReturn(fetch_bybit_24h_quote_volume(env), "exch:BYBIT")
    ELSE IF VenueIs(p.venue, <<"B","I","T","U","N","I","X">>)
    THEN VenueReturn(fetch_bitunix_24h_quote_volume, "exch:BITUNIX")
    ELSE [ret |-> Tuple(PyNone, PyNone), calls |-> << >>]

\* get_venue_volume_24h(tv_symbol) for a str
get_venue_volume_24h(tv_symbol, env) == VenueVolumeOfParsed(parse_tv_symbol(tv_symbol), env)

-----------------------------------------------------------------------------
(* Telegram, lines 25-33 *)

\* int(s) of a str: optional sign, digits, surrounding whitespace
PyIntStr(s) ==
    LET t == Strip(s)
        body == IF t # << >> /\ Head(t) \in {"+", "-"} THEN Tail(t) ELSE t
    IN  IF body # << >> /\ \A i \in 1..Len(body) : IsDigit(body[i])
        THEN Num(DigitsVal(body), 0) ELSE Err

\* send_telegram(text): int(CHAT_ID) is evaluated outside the try, the post
\* inside it; one request, whatever comes of it
send_telegram(text, chat_id, env) ==
    IF PyIntStr(chat_id.s) = Err THEN [raised |-> TRUE, calls |-> << >>]
    ELSE [raised |-> FALSE,
          calls |-> <<[api |-> "telegram", outcome |-> env.tg.o, text |-> text]>>]

-----------------------------------------------------------------------------
(* tv_webhook, lines 297-412 *)

Keys ==
    {"secret", "symbol", "signal_tf", "timeframe",
     "price_str", "price", "price_prec", "mintick",
     "change_24h", "rsi", "ema20", "ema50", "ema100", "ema200", "sma200",
     "macd", "macd_signal", "macd_hist", "adx", "di_plus", "di_minus",
     "bb_upper", "bb_lower", "bb_width", "atr", "obv",
     "swing_high", "swing_low", "swing_high_A", "swing_low_A",
     "swing_high_B", "swing_low_B", "swing_high_date", "swing_low_date",
     "swing_high_date_A", "swing_low_date_A", "swing_high_date_B", "swing_low_date_B",
     "btc_dom", "alt_dom",
     "vol24h_quote_tv", "vol24h_base_tv", "volume", "vol_mode", "note"}

Object(f) == [t |-> "object", f |-> f]
NotCalled == [t |-> "notcalled"]
UNKNOWN == <<"U","N","K","N","O","W","N">>

\* a or b
Or(a, b) == IF Truthy(a) THEN a ELSE b

\* one TV fallback tier, lines 358-369: taken when no source is set yet, the
\* field is not None and float() accepts it
Fallback(prev, field, label) ==
    IF prev.vol_src = PyNone /\ field # PyNone /\ PyFloat(field) # Err
    THEN [vol_value |-> PyFloat(field), vol_src |-> label]
    ELSE prev

\* line 369: f"tv:{payload.get('vol_mode') or 'volume'}"
TvLabel(p) ==
    [t |-> "label", name |-> "tv:",
     mode |-> Repr(Or(Get(p, "vol_mode"), Str(<<"v","o","l","u","m","e">>)))]

\* lines 358-369
Fallbacks(prev, p) ==
    Fallback(Fallback(Fallback(prev, Get(p, "vol24h_quote_tv"), Label("tv:close-quote")),
                      Get(p, "vol24h_base_tv"), Label("tv:close-base")),
             Get(p, "volume"), TvLabel(p))

\* lines 354-356: ve is what get_venue_volume_24h returned
VenueTaken(cg, ve) ==
    IF ve.ret.a # PyNone
    THEN [vol_value |-> ve.ret.a, vol_src |-> ve.ret.b, venue |-> ve.ret, calls |-> ve.calls]
    ELSE [vol_value |-> cg.val, vol_src |-> PyNone, venue |-> ve.ret, calls |-> ve.calls]

\* the venue tier entered whatever CoinGecko returned
VenueTierAlways(cg, symbol, env) ==
    VenueTaken(cg, get_venue_volume_24h(symbol, env))
\* lines 349-356: the venue tier, entered when CoinGecko gave no number
VenueTier(cg, symbol, env) ==
    IF cg.val # PyNone
    THEN [vol_value |-> cg.val, vol_src |-> Label("cg"), venue |-> NotCalled, calls |-> << >>]
    ELSE VenueTaken(cg, get_venue_volume_24h(symbol, env))

\* what the selection leaves: the volume and its source, what each provider
\* returned, the caches and the requests issued
Selected(cg, vt, fb) ==
    [vol_value |-> fb.vol_value, vol_src |-> fb.vol_src,
     cg |-> cg.val, venue |-> vt.venue,
     idc |-> cg.idc, volc |-> cg.volc, calls |-> cg.calls \o vt.calls]

\* lines 358-369, after the provider tiers
AfterProviders(p, cg, vt) ==
    Selected(cg, vt, Fallbacks([vol_value |-> vt.vol_value, vol_src |-> vt.vol_src], p))

\* lines 352-369, after CoinGecko
AfterCoinGecko(p, symbol, env, cg) == AfterProviders(p, cg, VenueTier(cg, symbol, env))

\* lines 348-369: CG -> exchange -> TV
VolumeSelection(p, symbol, idc, volc, t, env) ==
    AfterCoinGecko(p, symbol, env,
                   get_coingecko_volume_24h_by_symbol(symbol, idc, volc, t, env))

-----------------------------------------------------------------------------
(* The message, lines 371-401.  A line is a sequence of template literals   *)
(* and filled slots; one-character stand-ins replace the non-ASCII          *)
(* characters of the literals.                                              *)

Slot(name, tok) == [k |-> "slot", name |-> name, tok |-> tok]
\* f"{v}"
Fmt(v) == Text(Repr(v))
\* _clean_num(_get(payload, key), decimals) in its slot
N(p, key, decimals) == Slot(key, clean_num(Get(p, key), decimals))
\* hiDate or '-'
DateOr(p, key) == Slot(key, IF Truthy(Get(p, key)) THEN Fmt(Get(p, key)) ELSE Dash)
AnySet(p, keys) == \E k \in keys : Get(p, k) # PyNone
AnyTruthy(p, keys) == \E k \in keys : Truthy(Get(p, k))

\* line 375
VolDisplay(vol_value) == IF vol_value = PyNone THEN Dash ELSE abbr(vol_value)

\* f"{vol_src}" of a source label
Source(vol_src) ==
    [k |-> "label", name |-> vol_src.name,
     mode |-> IF "mode" \in DOMAIN vol_src THEN vol_src.mode ELSE << >>]

HeadLines(p, symbol, tf, price_text, vol_value, vol_src) ==
    << <<Lit("# TV Alert")>>,
       <<Lit("* Symbol: "), Slot("symbol", Fmt(symbol)),
         Lit("  (Signal TF: "), Slot("tf", Text(tf)), Lit(")")>>,
       <<Lit("* Price: "), Slot("price", price_text),
         Lit("  | 24h: "), N(p, "change_24h", 2),
         Lit("%  | Vol(24h): "), Slot("vol", VolDisplay(vol_value)),
         Lit("  ["), Slot("vol_src", IF vol_src = PyNone THEN Lit("na") ELSE Source(vol_src)),
         Lit("]")>> >>

DomLines(p) ==
    IF AnySet(p, {"btc_dom", "alt_dom"})
    THEN << <<Lit("* BTC Dom: "), N(p, "btc_dom", 2),
              Lit("%  |  Alt Dom(ex-BTC): "), N(p, "alt_dom", 2), Lit("%")>> >>
    ELSE << >>

IndicatorLines(p) ==
    << <<Lit("* RSI(14): "), N(p, "rsi", 2), Lit("  | ATR: "), N(p, "atr", 6)>>,
       <<Lit("* EMA20/50: "), N(p, "ema20", 6), Lit(" / "), N(p, "ema50", 6)>>,
       <<Lit("* EMA100/200: "), N(p, "ema100", 6), Lit(" / "), N(p, "ema200", 6),
         Lit("  | SMA200: "), N(p, "sma200", 6)>>,
       <<Lit("* MACD: "), N(p, "macd", 6), Lit("  Sig: "), N(p, "macd_signal", 6),
         Lit("  Hist: "), N(p, "macd_hist", 6)>>,
       <<Lit("* ADX/DI+/DI-: "), N(p, "adx", 2), Lit(" / "), N(p, "di_plus", 2),
         Lit(" / "), N(p, "di_minus", 2), Lit("  ("),
         Slot("trend", trend_read(Get(p, "adx"), Get(p, "di_plus"), Get(p, "di_minus"))),
         Lit(")")>>,
       <<Lit("* BB U/L: "), N(p, "bb_upper", 6), Lit(" / "), N(p, "bb_lower", 6),
         Lit("  | Width: "), N(p, "bb_width", 6)>> >>

\* the optional dates of a pivot line
Dates(p, open, hi, lo, close) ==
    IF AnyTruthy(p, {hi, lo})
    THEN <<Lit(open), DateOr(p, hi), Lit(" / "), DateOr(p, lo)>>
         \o (IF close = "" THEN << >> ELSE <<Lit(close)>>)
    ELSE << >>

PivotLines(p) ==
    (IF AnySet(p, {"swing_high", "swing_low"})
     THEN << <<Lit("* Swing H/L (Merged): "), N(p, "swing_high", 6), Lit(" / "),
               N(p, "swing_low", 6)>>
             \o Dates(p, "  | Dates: ", "swing_high_date", "swing_low_date", "") >>
     ELSE << >>)
    \o
    (IF AnySet(p, {"swing_high_A", "swing_low_A", "swing_high_B", "swing_low_B"})
     THEN << <<Lit("* Pivots A: H/L "), N(p, "swing_high_A", 6), Lit(" / "),
               N(p, "swing_low_A", 6)>>
             \o Dates(p, "  (", "swing_high_date_A", "swing_low_date_A", ")"),
             <<Lit("* Pivots B: H/L "), N(p, "swing_high_B", 6), Lit(" / "),
               N(p, "swing_low_B", 6)>>
             \o Dates(p, "  (", "swing_high_date_B", "swing_low_date_B", ")") >>
     ELSE << >>)

NoteLines(p) ==
    IF Truthy(Get(p, "note"))
    THEN << <<Lit("* Note: "), Slot("note", Fmt(Get(p, "note")))>> >>
    ELSE << >>

BuildMessage(p, symbol, tf, price_text, vol_value, vol_src) ==
    HeadLines(p, symbol, tf, price_text, vol_value, vol_src)
    \o DomLines(p) \o IndicatorLines(p) \o PivotLines(p) \o NoteLines(p)

\* len() of a rendered piece, or the least it can be: a float printed with
\* dec decimals has one digit at least before the point
TokLen(tok) ==
    CASE tok.k = "dash" -> 1
      [] tok.k = "text" -> Len(tok.s)
      [] tok.k = "lit" -> Len(tok.s)
      [] tok.k = "label" -> Len(tok.name) + Len(tok.mode)
      [] tok.k = "fixed" -> IF tok.dec = 0 THEN 1 ELSE tok.dec + 2
      [] tok.k = "abbr" -> IF tok.suffix = "" THEN 1 ELSE 5
      [] OTHER -> 0
ItemLen(it) == IF it.k = "slot" THEN TokLen(it.tok) ELSE TokLen(it)
RECURSIVE LineLen(_)
LineLen(line) == IF line = << >> THEN 0 ELSE ItemLen(Head(line)) + LineLen(Tail(line))
RECURSIVE LinesLen(_)
LinesLen(lines) == IF lines = << >> THEN 0 ELSE LineLen(Head(lines)) + LinesLen(Tail(lines))
\* len("\n".join(lines))
MsgLen(lines) == LinesLen(lines) + (Len(lines) - 1)

-----------------------------------------------------------------------------
(* The handler *)

Resp(body, status) == [body |-> body, status |-> status]
Idle == [body |-> "", status |-> 0]
NoHist == [t |-> "nohist"]

\* payload.get("secret")
SecretOf(payload) == IF payload.f["secret"] = Absent THEN PyNone ELSE payload.f["secret"]

\* line 308, for a payload that has .get
Unauthorized(payload, secret) == ~Truthy(secret) \/ SecretOf(payload) # secret

\* lines 313
TimeframeOf(p) ==
    Upper(Repr(Or(Get(p, "signal_tf"), Or(Get(p, "timeframe"), Str(<<"N","A">>)))))

\* what one run of the handler leaves behind
Outcome(rsp, cs, idc, volc, h) ==
    [resp |-> rsp, calls |-> cs, idc |-> idc, volc |-> volc, hist |-> h]

\* the handler's locals after the volume selection vs, started at time t
\* with caches idc and volc
Locals(t, idc, volc, vs) ==
    [t |-> t, idc |-> idc, volc |-> volc, cg |-> vs.cg, venue |-> vs.venue,
     vol_value |-> vs.vol_value, vol_src |-> vs.vol_src]

\* lines 407-412: sent is what send_telegram came to
Sent(vs, h, sent) ==
    IF sent.raised
    THEN Outcome(Resp("error", 500), vs.calls, vs.idc, vs.volc, h)
    ELSE Outcome(Resp("ok", 200), vs.calls \o sent.calls, vs.idc, vs.volc, h)

\* lines 403-408
Deliver(token, chat_id, env, vs, h, msg) ==
    IF ~Truthy(token) \/ ~Truthy(chat_id)
    THEN Outcome(Resp("server misconfigured", 500), vs.calls, vs.idc, vs.volc, h)
    ELSE Sent(vs, h, send_telegram(msg, chat_id, env))

\* lines 371-408
Compose(p, symbol, token, chat_id, idc, volc, t, env, vs) ==
    Deliver(token, chat_id, env, vs, Locals(t, idc, volc, vs),
            BuildMessage(p, symbol, TimeframeOf(p), format_price(p),
                         vs.vol_value, vs.vol_src))

\* lines 348-408, for the symbol of line 312
ProcessSymbol(p, symbol, token, chat_id, idc, volc, t, env) ==
    IF ~IsStr(symbol)
    \* parse_tv_symbol: tv_symbol.split raises, caught at line 410
    THEN Outcome(Resp("error", 500), << >>, idc, volc,
                 [t |-> t, idc |-> idc, volc |-> volc, cg |-> Err, venue |-> NotCalled,
                  vol_value |-> PyNone, vol_src |-> PyNone])
    ELSE Compose(p, symbol, token, chat_id, idc, volc, t, env,
                 VolumeSelection(p, symbol.s, idc, volc, t, env))

\* lines 311-408, for an authorized dict payload p
Process(p, secret, token, chat_id, idc, volc, t, env) ==
    ProcessSymbol(p, Or(Get(p, "symbol"), Str(UNKNOWN)), token, chat_id, idc, volc, t, env)

\* tv_webhook(): r is the request body
Handle(r, secret, token, chat_id, idc, volc, t, env) ==
    IF r.kind = "badjson"
    THEN Outcome(Resp("bad json", 400), << >>, idc, volc, NoHist)
    ELSE IF r.payload.t # "object"
    \* not ALERT_SECRET short-circuits; otherwise payload.get raises
    THEN Outcome(IF ~Truthy(secret) THEN Resp("unauthorized", 401) ELSE Resp("error", 500),
                 << >>, idc, volc, NoHist)
    ELSE IF Unauthorized(r.payload, secret)
    THEN Outcome(Resp("unauthorized", 401), << >>, idc, volc, NoHist)
    ELSE Process(r.payload.f, secret, token, chat_id, idc, volc, t, env)

-----------------------------------------------------------------------------
(* Requests and outcomes the model draws from *)

SECRET == <<"s","3","c","r","e","t">>
WRONG == <<"w","r","o","n","g">>
BINANCE_BTCUSDT == <<"B","I","N","A","N","C","E",":","B","T","C","U","S","D","T">>
BYBIT_BTCUSDT_P == <<"B","Y","B","I","T",":","B","T","C","U","S","D","T",".","P">>
HTX_BTCUSDT == <<"h","t","x",":","B","T","C","U","S","D","T">>
HUOBI_BTCUSDT == <<"H","U","O","B","I",":","B","T","C","U","S","D","T">>
COINBASE_BTC_USD == <<"C","O","I","N","B","A","S","E",":","B","T","C","-","U","S","D">>
BITUNIX_BTCUSDT == <<"B","I","T","U","N","I","X",":","B","T","C","U","S","D","T">>
KRAKEN_BTCEUR == <<"K","R","A","K","E","N",":","B","T","C","E","U","R">>
ETHUSDT == <<"B","I","N","A","N","C","E",":","E","T","H","/","U","S","D","T">>
BTCUSDT == <<"B","T","C","U","S","D","T">>
BtcUSDT == <<"B","I","N","A","N","C","E",":","B","t","c","U","S","D","T">>
FOO == <<"B","I","N","A","N","C","E",":","F","O","O">>

NoteLong == 4000
Chars(c, n) == [i \in 1..n |-> c]

Base(secret) == [k \in Keys |-> IF k = "secret" THEN secret ELSE Absent]
With(f, k, v) == [f EXCEPT ![k] = v]
Good == With(Base(Str(SECRET)), "symbol", Str(BINANCE_BTCUSDT))
Json(v) == [kind |-> "json", payload |-> v]
BadJson == [kind |-> "badjson", payload |-> PyNone]

\* the provider answers; the ids and volumes are the provider's
CgVolumes == {Num(25000000, 0), Num(31000500, 0)}
VenueVolumes == {Num(1234567, 2)}
Env(search, markets, venue, venue2, tg) ==
    [search |-> search, markets |-> markets, venue |-> venue, venue2 |-> venue2, tg |-> tg]
NominalEnv ==
    Env(Ok(Str(<<"c","o","i","n">>)), Ok(Num(25000000, 0)), Ok(Num(1234567, 2)),
        Ok(Num(1234567, 2)), Ok(PyNone))
SearchOutcomes == {Ok(Str(<<"c","o","i","n">>)), NoField, Fail}
MarketsOutcomes == {NominalEnv.markets, NoField, Fail}
VenueOutcomes == {Ok(v) : v \in VenueVolumes} \cup {NoField, Fail}
TgOutcomes == {Ok(PyNone), NoField, Fail}
\* the second venue request is only made after a failed first one
ProviderEnvs ==
    {Env(s, m, v, w, Ok(PyNone)) :
        s \in SearchOutcomes, m \in MarketsOutcomes, v \in VenueOutcomes,
        w \in VenueOutcomes} \ {e \in
    {Env(s, m, v, w, Ok(PyNone)) :
        s \in SearchOutcomes, m \in MarketsOutcomes, v \in VenueOutcomes,
        w \in VenueOutcomes} : e.venue # Fail /\ e.venue2 # Fail}
DownEnv == Env(Fail, Fail, Fail, Fail, Ok(PyNone))
DeliveryEnvs ==
    {Env(s, NominalEnv.markets, Fail, Fail, g) : s \in {NominalEnv.search, Fail}, g \in TgOutcomes}

\* authentication and body shapes
SecretValues == {Absent, PyNone, Str(WRONG), Str(SECRET), Str(<< >>), Num(1, 0)}
AuthRequests ==
    {BadJson, Json(JList), Json(Str(SECRET)), Json(PyNone)}
    \cup {Json(Object(With(Base(sec), "symbol", sym))) :
            sec \in SecretValues, sym \in {Absent, Str(BINANCE_BTCUSDT)}}

\* symbols of every venue, and values of other JSON types
SymbolValues ==
    {Absent, PyNone, Str(<< >>), Num(0, 0), Num(123, 0), JList, Bool(TRUE)}
    \cup {Str(x) : x \in {BINANCE_BTCUSDT, BYBIT_BTCUSDT_P, HTX_BTCUSDT, HUOBI_BTCUSDT,
                          COINBASE_BTC_USD, BITUNIX_BTCUSDT, KRAKEN_BTCEUR, BTCUSDT, FOO}}
SymbolRequests == {Json(Object(With(Good, "symbol", sym))) : sym \in SymbolValues}

\* the TV fallback fields
FallbackValues == {Absent, Str(<<"2","5","0","0">>), Str(<<"a","b","c">>)}
VolPayload(sym, a, b, c, m) ==
    Json(Object([Good EXCEPT !["symbol"] = Str(sym), !["vol24h_quote_tv"] = a,
                             !["vol24h_base_tv"] = b, !["volume"] = c, !["vol_mode"] = m]))
\* every combination of the fallback fields, where no provider answers
FallbackRequests ==
    {VolPayload(sym, a, b, c, Absent) :
        sym \in {BINANCE_BTCUSDT, FOO}, a \in FallbackValues,
        b \in FallbackValues, c \in FallbackValues}
    \cup
    {VolPayload(FOO, a, b, c, m) :
        a \in {Absent, NaN}, b \in {Absent, Num(7, 0)},
        c \in {Absent, Str(<<"n","a","n">>), Num(999, 0)}, m \in {Absent, Str(<<"q">>)}}
\* every provider outcome, with and without fallback fields
VolumeRequests ==
    {VolPayload(sym, a, a, a, Absent) :
        sym \in {BINANCE_BTCUSDT, BYBIT_BTCUSDT_P, COINBASE_BTC_USD, BITUNIX_BTCUSDT},
        a \in {Absent, Str(<<"2","5","0","0">>)}}

\* every numeric slot, with missing, not-a-number and malformed values
NumericKeys ==
    {"change_24h", "rsi", "ema20", "ema50", "ema100", "ema200", "sma200",
     "macd", "macd_signal", "macd_hist", "adx", "di_plus", "di_minus",
     "bb_upper", "bb_lower", "bb_width", "atr",
     "swing_high", "swing_low", "swing_high_A", "swing_low_A",
     "swing_high_B", "swing_low_B", "btc_dom", "alt_dom"}
FieldValues ==
    {PyNone, Num(5025, 2), NaN, Bool(TRUE), JList,
     Str(<<"n","a">>), Str(<<"N","a","N">>), Str(<< >>), Str(<<"a","b","c">>),
     Str(<<" ","1",",","2","3","4",".","5","0"," ">>)}
FieldRequests ==
    {Json(Object(With(Good, k, v))) : k \in NumericKeys, v \in FieldValues}
    \cup {Json(Object(With(With(Good, "swing_high", Num(1, 0)), k, v))) :
            k \in {"swing_low", "swing_high_date", "swing_low_date"}, v \in FieldValues}
    \cup {Json(Object([Good EXCEPT !["adx"] = a, !["di_plus"] = Num(30, 0),
                                   !["di_minus"] = Str(<<"2","0",".","5">>)])) :
            a \in {Num(30, 0), Num(20, 0), Num(5, 0), NaN}}

TextKeys ==
    {"signal_tf", "timeframe", "note", "vol_mode", "obv",
     "swing_high_date_A", "swing_low_date_A", "swing_high_date_B", "swing_low_date_B"}
TextRequests ==
    {Json(Object(With(With(Good, "swing_low_B", Num(1, 0)), k, v))) :
        k \in TextKeys, v \in {PyNone, Num(240, 0), JList, Str(<<"4","h">>)}}

PriceStrValues == {Absent, Str(<<"0",".","0","0","0","0","1","2","3">>), Str(<<" ">>), Num(5, 0)}
PriceValues ==
    {Absent, PyNone, Num(123456, 5), Str(<<"1",".","5">>), Str(<<"a","b","c">>),
     Str(<<"n","a","n">>), Str(<< >>), NaN, JList}
PricePrecValues ==
    {Absent, Num(2, 0), Str(<<"4">>), Num(27, 1), Num(-1, 0), Str(<<"x">>), NaN}
MintickValues ==
    {Absent, Str(<<"0",".","0","1">>), Num(5, 1), Num(25, 0), Num(0, 0),
     Str(<<"a","b","c">>), Inf(FALSE)}
PriceKeys == {"price_str", "price", "price_prec", "mintick"}
PricePayloads ==
    {[k \in PriceKeys |-> CASE k = "price_str" -> a [] k = "price" -> b
                            [] k = "price_prec" -> c [] OTHER -> d] :
        a \in PriceStrValues, b \in PriceValues, c \in PricePrecValues, d \in MintickValues}
PriceRequests ==
    {Json(Object([Good EXCEPT !["price_str"] = a, !["price"] = b,
                              !["price_prec"] = c, !["mintick"] = d])) :
        a \in {Absent, Str(<<"0",".","0","0","0","0","1","2","3">>)},
        b \in {Absent, Num(123456, 5), Str(<<"a","b","c">>), Str(<<"n","a","n">>), NaN},
        c \in {Absent, Num(2, 0), Str(<<"x">>)},
        d \in {Absent, Str(<<"0",".","0","1">>)}}

NoteRequests ==
    {Json(Object(With(Good, "note", v))) :
        v \in {Str(<< >>), Str(<<"h","i">>), Str(Chars("x", NoteLong))}}

Scenarios ==
    ((AuthRequests \cup SymbolRequests \cup FieldRequests \cup TextRequests
        \cup PriceRequests \cup NoteRequests) \X {NominalEnv, DownEnv})
    \cup (FallbackRequests \X {DownEnv})
    \cup (VolumeRequests \X ProviderEnvs)
    \cup ((NoteRequests \cup {Json(Object(Good))}) \X DeliveryEnvs)

-----------------------------------------------------------------------------
(* State machine *)

EmptyDict == [x \in {} |-> PyNone]
NoReq == [kind |-> "none", payload |-> PyNone]
NoArg == [fn |-> "none"]

\* the environment the process is started with, lines 12-14: the secret is
\* unset, empty or set; the notifier is set up, lacks its token or its chat,
\* or names its chat by a handle
TOKEN == <<"t","o","k">>
CHAT == <<"-","1","0","0","4","2">>
Configs ==
    {<<s, Str(TOKEN), Str(CHAT)>> : s \in {PyNone, Str(<< >>), Str(SECRET)}}
    \cup {<<Str(SECRET), PyNone, Str(CHAT)>>,
          <<Str(SECRET), Str(TOKEN), PyNone>>,
          <<Str(SECRET), Str(TOKEN), Str(<<"@","c","h","a","n">>)>>}

\* lines 19-20: the caches start empty; no request is in progress
Quiet ==
    /\ ID_CACHE = EmptyDict
    /\ VOL_CACHE = EmptyDict
    /\ now = 0
    /\ req = NoReq
    /\ resp = Idle
    /\ calls = << >>
    /\ hist = NoHist

Init ==
    /\ \E cfg \in Configs :
            ALERT_SECRET = cfg[1] /\ TELEGRAM_TOKEN = cfg[2] /\ CHAT_ID = cfg[3]
    /\ Quiet
    /\ arg = NoArg
    /\ ret = << >>

\* POST /tv
Responded(r, out) ==
    /\ req' = r
    /\ resp' = out.resp
    /\ calls' = out.calls
    /\ hist' = out.hist
    /\ ID_CACHE' = out.idc
    /\ VOL_CACHE' = out.volc
    /\ UNCHANGED <<ALERT_SECRET, TELEGRAM_TOKEN, CHAT_ID, now, arg, ret>>

TvWebhook(r, env) ==
    /\ resp = Idle
    /\ Responded(r, Handle(r, ALERT_SECRET, TELEGRAM_TOKEN, CHAT_ID,
                           ID_CACHE, VOL_CACHE, now, env))

\* GET /tv/test, lines 290-295; an exception of send_telegram is the
\* framework's 500
TestSent(sent) ==
    IF sent.raised
    THEN resp' = Resp("Internal Server Error", 500) /\ calls' = << >>
    ELSE resp' = Resp("ok", 200) /\ calls' = sent.calls

TvTest(env) ==
    /\ resp = Idle
    /\ IF ~Truthy(TELEGRAM_TOKEN) \/ ~Truthy(CHAT_ID)
       THEN resp' = Resp("Missing TELEGRAM_TOKEN or CHAT_ID", 500) /\ calls' = << >>
       ELSE TestSent(send_telegram(<< <<Lit("# Test OK")>>, <<Lit("Service is alive.")>> >>,
                                   CHAT_ID, env))
    /\ req' = [kind |-> "test", payload |-> PyNone]
    /\ hist' = NoHist
    /\ UNCHANGED <<ALERT_SECRET, TELEGRAM_TOKEN, CHAT_ID, ID_CACHE, VOL_CACHE, now, arg, ret>>

\* the response is sent; the handler's locals are gone
Return ==
    /\ resp # Idle
    /\ req' = NoReq
    /\ resp' = Idle
    /\ calls' = << >>
    /\ hist' = NoHist
    /\ UNCHANGED <<ALERT_SECRET, TELEGRAM_TOKEN, CHAT_ID, ID_CACHE, VOL_CACHE, now, arg, ret>>

\* time passes between two requests
Tick(step, horizon) ==
    /\ resp = Idle
    /\ arg = NoArg
    /\ now + step <= horizon
    /\ now' = now + step
    /\ UNCHANGED <<ALERT_SECRET, TELEGRAM_TOKEN, CHAT_ID, ID_CACHE, VOL_CACHE,
                   req, resp, calls, hist, arg, ret>>

MaxEpochs == 1

\* a request arrives while none is being handled
PostTv == resp = Idle /\ \E sc \in Scenarios : TvWebhook(sc[1], sc[2])
GetTvTest == resp = Idle /\ \E g \in TgOutcomes : TvTest(Env(Fail, Fail, Fail, Fail, g))

Next ==
    \/ PostTv
    \/ GetTvTest
    \/ Return
    \/ Tick(CACHE_TTL, MaxEpochs * CACHE_TTL)

Spec == Init /\ [][Next]_vars

-----------------------------------------------------------------------------
(* The symbol parser alone: parse, then parse the normalized pair again *)

InitParse ==
    /\ ALERT_SECRET = PyNone /\ TELEGRAM_TOKEN = PyNone /\ CHAT_ID = PyNone
    /\ Quiet
    /\ arg \in {[fn |-> "parse_tv_symbol", x |-> x] : x \in ParseInputs}
    /\ ret = << >>

ApplyParse ==
    /\ arg.fn = "parse_tv_symbol"
    /\ Len(ret) < 2
    /\ ret' = Append(ret, parse_tv_symbol(IF ret = << >> THEN arg.x ELSE ret[1].pair_norm))
    /\ UNCHANGED <<ALERT_SECRET, TELEGRAM_TOKEN, CHAT_ID, ID_CACHE, VOL_CACHE, now,
                   req, resp, calls, hist, arg>>

NextParse == ApplyParse

SpecParse == InitParse /\ [][NextParse]_vars

-----------------------------------------------------------------------------
(* The price formatter alone *)

InitPrice ==
    /\ ALERT_SECRET = PyNone /\ TELEGRAM_TOKEN = PyNone /\ CHAT_ID = PyNone
    /\ Quiet
    /\ arg \in {[fn |-> "format_price", x |-> x] : x \in PricePayloads}
    /\ ret = << >>

ApplyFormatPrice ==
    /\ arg.fn = "format_price"
    /\ ret = << >>
    /\ ret' = <<format_price(arg.x)>>
    /\ UNCHANGED <<ALERT_SECRET, TELEGRAM_TOKEN, CHAT_ID, ID_CACHE, VOL_CACHE, now,
                   req, resp, calls, hist, arg>>

NextPrice == ApplyFormatPrice

SpecPrice == InitPrice /\ [][NextPrice]_vars

-----------------------------------------------------------------------------
(* The aggregator cache alone: alerts for two bases, one of them spelt in   *)
(* two cases, while time passes in steps shorter than the TTL               *)

TicksPerTTL == 2

CacheSymbols == {BINANCE_BTCUSDT, BtcUSDT, ETHUSDT}
CacheEnvs ==
    {Env(s, m, Fail, Fail, Ok(PyNone)) :
        s \in {NominalEnv.search, Fail},
        m \in {Ok(v) : v \in CgVolumes} \cup {NoField, Fail}}
CacheScenarios ==
    {Json(Object(With(Good, "symbol", Str(x)))) : x \in CacheSymbols} \X CacheEnvs

InitCache ==
    /\ ALERT_SECRET = Str(SECRET) /\ TELEGRAM_TOKEN = Str(TOKEN) /\ CHAT_ID = Str(CHAT)
    /\ Quiet
    /\ arg = NoArg
    /\ ret = << >>

PostTvCache == resp = Idle /\ \E sc \in CacheScenarios : TvWebhook(sc[1], sc[2])

NextCache ==
    \/ PostTvCache
    \/ Return
    \/ Tick(CACHE_TTL \div TicksPerTTL, MaxEpochs * CACHE_TTL)

SpecCache == InitCache /\ [][NextCache]_vars

-----------------------------------------------------------------------------
(* What a handled request shows, before its response is sent *)

\* POST /tv has been handled
Handled == resp # Idle /\ req.kind \in {"json", "badjson"}
\* its body is a JSON object
IsObject == req.kind = "json" /\ req.payload.t = "object"
Fields == req.payload.f
\* the secret the body carries, None when it carries none
RequestSecret == IF req.payload.t = "object" THEN SecretOf(req.payload) ELSE PyNone
Authorized == IsObject /\ Truthy(ALERT_SECRET) /\ RequestSecret = ALERT_SECRET
\* the handler went through the volume selection and built its message
Enriched == Handled /\ hist # NoHist /\ hist.cg # Err

TelegramCalls == {i \in 1..Len(calls) : calls[i].api = "telegram"}
CgCalls == {i \in 1..Len(calls) : calls[i].api \in {"cg_search", "cg_markets"}}
VenueCalls ==
    {i \in 1..Len(calls) :
        calls[i].api \in {"binance", "htx", "coinbase", "bybit_spot", "bybit_linear"}}

\* both notifier settings are set; and the chat id is an integer as well
NotifierSet == Truthy(TELEGRAM_TOKEN) /\ Truthy(CHAT_ID)
NotifierUsable == NotifierSet /\ PyIntStr(CHAT_ID.s) # Err

-----------------------------------------------------------------------------
(* Authentication *)

\* C1: a POST /tv whose body parses as JSON and whose secret is absent or
\* differs from the configured one, or any such request when no secret is
\* configured, gets the unauthorized result 401, and no notifier or provider
\* request is made for it.
UnauthorizedIsRejected ==
    (Handled /\ req.kind = "json"
        /\ (~Truthy(ALERT_SECRET) \/ RequestSecret # ALERT_SECRET))
    => (resp = Resp("unauthorized", 401) /\ calls = << >>)

-----------------------------------------------------------------------------
(* Volume tiers *)

\* the symbol of the alert, line 312
TheSymbol == Or(Get(Fields, "symbol"), Str(UNKNOWN))
\* the payload field k yields a value: it is set and float() accepts it
Yields(k) == Get(Fields, k) # PyNone /\ PyFloat(Get(Fields, k)) # Err
FieldTier(k, label) == [vol_value |-> PyFloat(Get(Fields, k)), vol_src |-> label]

\* what the venue request made last answered, and the label of its client
VenueValue == IF VenueCalls = {} THEN PyNone ELSE calls[Max(VenueCalls)].v
VenueLabel ==
    CASE calls[Max(VenueCalls)].api = "binance" -> "exch:BINANCE"
      [] calls[Max(VenueCalls)].api = "htx" -> "exch:HTX"
      [] calls[Max(VenueCalls)].api = "coinbase" -> "exch:COINBASE"
      [] OTHER -> "exch:BYBIT"
\* the clients of the venue the symbol names
ClientsOf(venue) ==
    CASE venue = Str(<<"B","I","N","A","N","C","E">>) -> {"binance"}
      [] venue \in {Str(<<"H","T","X">>), Str(<<"H","U","O","B","I">>)} -> {"htx"}
      [] venue = Str(<<"C","O","I","N","B","A","S","E">>) -> {"coinbase"}
      [] venue = Str(<<"B","Y","B","I","T">>) -> {"bybit_spot", "bybit_linear"}
      [] OTHER -> {}

\* the first tier that yields a value, given what the providers answered
FirstTier ==
    IF hist.cg # PyNone THEN [vol_value |-> hist.cg, vol_src |-> Label("cg")]
    ELSE IF VenueValue # PyNone
    THEN [vol_value |-> VenueValue, vol_src |-> Label(VenueLabel)]
    ELSE IF Yields("vol24h_quote_tv")
    THEN FieldTier("vol24h_quote_tv", Label("tv:close-quote"))
    ELSE IF Yields("vol24h_base_tv")
    THEN FieldTier("vol24h_base_tv", Label("tv:close-base"))
    ELSE IF Yields("volume") THEN FieldTier("volume", TvLabel(Fields))
    ELSE [vol_value |-> PyNone, vol_src |-> PyNone]

\* the volume and the source on the price line of a message
ShowsFirstTier(text) ==
    /\ text[3][6].tok =
            (IF FirstTier.vol_value = PyNone THEN Dash ELSE abbr(FirstTier.vol_value))
    /\ text[3][8].tok =
            (IF FirstTier.vol_src = PyNone THEN Lit("na") ELSE Source(FirstTier.vol_src))

\* C2: the volume and its source are those of the first tier that yields a
\* value, in the order CoinGecko, the client of the parsed venue,
\* vol24h_quote_tv, vol24h_base_tv, volume; the message shows them; the
\* aggregator is asked before the venue, and when it returns a value no venue
\* request is made and no fallback field is used.
VolumeTiersInOrder ==
    Enriched =>
        /\ [vol_value |-> hist.vol_value, vol_src |-> hist.vol_src] = FirstTier
        /\ (hist.cg # PyNone => VenueCalls = {} /\ hist.venue = NotCalled)
        /\ (hist.cg = PyNone => hist.venue # NotCalled)
        /\ \A i \in CgCalls : \A j \in VenueCalls : i < j
        /\ \A j \in VenueCalls :
                calls[j].api \in ClientsOf(parse_tv_symbol(TheSymbol.s).venue)
        /\ \A c \in TelegramCalls : ShowsFirstTier(calls[c].text)

\* the providers gave nothing, vol24h_quote_tv is set but is no number, and
\* vol24h_base_tv is taken
BaseFieldTaken ==
    /\ Enriched
    /\ hist.cg = PyNone
    /\ VenueCalls # {} /\ VenueValue = PyNone
    /\ Get(Fields, "vol24h_quote_tv") # PyNone /\ ~Yields("vol24h_quote_tv")
    /\ hist.vol_src = Label("tv:close-base")
    /\ TelegramCalls # {}

-----------------------------------------------------------------------------
(* Malformed fields, the message and its delivery *)

\* C3: an authorized JSON object, with the notifier set up, is never an error
\* whatever its recognized fields hold, a symbol of another JSON type
\* included: exactly one notifier request is made and the result is ok, 200.
MalformedFieldsAreNoError ==
    (Handled /\ Authorized /\ NotifierUsable)
    => (resp = Resp("ok", 200) /\ Cardinality(TelegramCalls) = 1)

NumericSlots == NumericKeys \cup {"price", "vol"}
MissingTexts == {<<"N","o","n","e">>, <<"n","u","l","l">>, <<"n","a","n">>}

\* C4: in every message built, no numeric slot shows None, null or nan.
NoMissingTextInNumericSlots ==
    \A c \in TelegramCalls :
        \A i \in 1..Len(calls[c].text) :
            \A j \in 1..Len(calls[c].text[i]) :
                (/\ calls[c].text[i][j].k = "slot"
                 /\ calls[c].text[i][j].name \in NumericSlots
                 /\ calls[c].text[i][j].tok.k = "text")
                => calls[c].text[i][j].tok.s \notin MissingTexts

\* C5: every delivery request carries a text of at most 3900 characters.
DeliveriesAreChunked ==
    \A c \in TelegramCalls : MsgLen(calls[c].text) <= 3900

\* C6: for an authorized alert whose message was built, with the notifier
\* configured, the result is ok, 200 whatever becomes of the notifier call,
\* and the delivery is not tried again.
DeliveryNeverFailsTheAlert ==
    (Enriched /\ NotifierSet)
    => (resp = Resp("ok", 200) /\ Cardinality(TelegramCalls) <= 1)

-----------------------------------------------------------------------------
(* The symbol parser and the price formatter *)

\* C7: parsing the normalized pair of a parse again gives the same base, the
\* same quote and the same normalized pair.
ParseIsIdempotentOnPairNorm ==
    (arg.fn = "parse_tv_symbol" /\ Len(ret) = 2)
    => (/\ ret[2].base = ret[1].base
        /\ ret[2].quote = ret[1].quote
        /\ ret[2].pair_norm = ret[1].pair_norm)

\* C8: format_price returns a non-blank price_str as it is; otherwise the
\* price with price_prec decimals; otherwise with the decimals of mintick or
\* with a high fixed precision; and the placeholder when price is absent or
\* is no number.
FormatPriceTiers ==
    (arg.fn = "format_price" /\ ret # << >>)
    => IF IsStr(Get(arg.x, "price_str")) /\ Strip(Get(arg.x, "price_str").s) # << >>
       THEN ret[1] = Text(Get(arg.x, "price_str").s)
       ELSE IF PyFloat(Get(arg.x, "price")) = Err
       THEN ret[1] = Dash
       ELSE IF /\ PyInt(PyFloat(Get(arg.x, "price_prec"))) # Err
               /\ PyInt(PyFloat(Get(arg.x, "price_prec"))).m >= 0
       THEN ret[1] = Fixed(PyFloat(Get(arg.x, "price")),
                           PyInt(PyFloat(Get(arg.x, "price_prec"))).m)
       ELSE \E dec \in 0..18 : ret[1] = Fixed(PyFloat(Get(arg.x, "price")), dec)

-----------------------------------------------------------------------------
(* The aggregator cache *)

\* the cache key of the alert's base asset, and the cache as the handler
\* found it
CacheKey == Lower(parse_tv_symbol(TheSymbol.s).base.s)
FoundFresh ==
    CacheKey \in DOMAIN hist.volc /\ hist.t - hist.volc[CacheKey][2] < CACHE_TTL
FoundStale ==
    CacheKey \in DOMAIN hist.volc /\ hist.t - hist.volc[CacheKey][2] >= CACHE_TTL
MarketsOk == {i \in CgCalls : calls[i].api = "cg_markets" /\ calls[i].outcome = "ok"}

\* C9: an entry younger than CACHE_TTL is returned and no request is made;
\* otherwise a request is made, the entry is written exactly when the markets
\* request succeeds, with the value and the time of that call, and a failed
\* request gives None and leaves the cache as it was.
CacheLifecycle ==
    (Enriched /\ Truthy(parse_tv_symbol(TheSymbol.s).base))
    => IF FoundFresh
       THEN /\ hist.cg = hist.volc[CacheKey][1]
            /\ CgCalls = {}
            /\ VOL_CACHE = hist.volc
       ELSE /\ CgCalls # {}
            /\ IF MarketsOk # {}
               THEN /\ hist.cg = calls[Max(MarketsOk)].v
                    /\ VOL_CACHE = Put(hist.volc, CacheKey, <<hist.cg, hist.t>>)
               ELSE /\ hist.cg = PyNone
                    /\ VOL_CACHE = hist.volc

\* an entry as old as CACHE_TTL is found, the new request fails, and the
\* result is None
StaleEntryNotReturned ==
    /\ Enriched
    /\ Truthy(parse_tv_symbol(TheSymbol.s).base)
    /\ FoundStale
    /\ CgCalls # {} /\ MarketsOk = {}
    /\ hist.cg = PyNone
    /\ CacheKey \in DOMAIN VOL_CACHE

-----------------------------------------------------------------------------
(* The venue tier *)

\* C10: get_venue_volume_24h returns the pair (None, None) whenever it has no
\* volume, and (value, "exch:<VENUE>") otherwise: the label is None exactly
\* when the value is.
VenueReturnsNonePair ==
    (Enriched /\ hist.venue # NotCalled)
    => IF hist.venue.a = PyNone
       THEN hist.venue = Tuple(PyNone, PyNone)
       ELSE hist.venue.b \in {Label(l) : l \in {"exch:BINANCE", "exch:HTX",
                                "exch:COINBASE", "exch:BYBIT", "exch:BITUNIX"}}

=============================================================================
